---- MODULE Spec2Model ----
(***************************************************************************)
(* Model of the chapter planner of word_splitter                           *)
(* (src/src/word_splitter.py): heading collection, the CurrentPath scan    *)
(* with the branch-depth-adaptive split decision, the resolution of the    *)
(* chapter end boundaries, and the first steps of                          *)
(* DocumentProcessor.process_single_document that consume the chapter list.*)
(*                                                                         *)
(* Python lists are 0-based; TLA+ sequences are 1-based.  Sequence indices *)
(* in the model are 1-based, while every paragraph_index, start_paragraph  *)
(* and end_paragraph VALUE is the 0-based index the program stores.        *)
(***************************************************************************)
EXTENDS Integers, Sequences, FiniteSets, TLC

\* ------------------------------------------------------------------ bounds
\* Largest number of paragraphs of an enumerated document.
MaxParas == 3
\* Deepest outline level of a paragraph of an enumerated document.
MaxLevel == 3
\* Largest number of body elements (paragraphs and tables) of a document.
MaxElements == 4
\* Largest number of paragraphs of a document of styled paragraphs.
MaxRawParas == 2
\* Largest number of free characters of a title (after its padding).
MaxTitleSuffix == 3
\* filename[:100]
FilenameCap == 100
\* Largest number of chapters of a document handed to the chapter workers.
MaxChapters == 2
\* min(self.chapter_thread_count, len(chapters), 8)
MaxChapterWorkers == 8
\* Largest number of files of the input directory.
MaxFiles == 2
\* Largest accepted split level (main.py validates 1 <= MIN_LEVEL <= 6).
MaxTargetLevel == 6

\* Heading texts of the enumerated documents: two, so that two headings can
\* carry the same title or different ones.
Titles == {"A", "B"}
\* A paragraph text made of whitespace only.
Blank == " "
\* The text of a body paragraph.
BodyText == "body text."

\* ------------------------------------------------------------------ inputs
\* A paragraph as the planner sees it: the value _get_outline_level returns
\* for it (0 = not a heading) and its raw text.
ParagraphKinds ==
    {[outline_level |-> 0, text |-> BodyText]}
      \cup {[outline_level |-> 1, text |-> Blank]}
      \cup {[outline_level |-> l, text |-> t] : l \in 1..MaxLevel, t \in Titles}

Docs == UNION {[1..n -> ParagraphKinds] : n \in 0..MaxParas}

\* The document of the spec's adaptive-depth example (section 8, item 4).
ExampleDoc ==
    << [outline_level |-> 1, text |-> "A"],
       [outline_level |-> 2, text |-> "A.1"],
       [outline_level |-> 1, text |-> "B"],
       [outline_level |-> 2, text |-> "B.1"],
       [outline_level |-> 3, text |-> "B.1.1"] >>
ExampleTargetLevel == 5

\* A document with an orphan heading between two chapters and another one
\* after the last chapter (for target level 2): chapters start at the first
\* and the third heading.
OrphanDoc ==
    << [outline_level |-> 1, text |-> "A"],
       [outline_level |-> 1, text |-> "B"],
       [outline_level |-> 2, text |-> "A"],
       [outline_level |-> 1, text |-> "B"],
       [outline_level |-> 3, text |-> "A"] >>

\* A document in which two top-level headings carry the same title and each
\* has one sub-heading, the two sub-headings carrying the same title too.
SameTitlesDoc ==
    << [outline_level |-> 1, text |-> "A"],
       [outline_level |-> 2, text |-> "B"],
       [outline_level |-> 1, text |-> "A"],
       [outline_level |-> 2, text |-> "B"] >>

TargetLevels == 1..MaxTargetLevel

\* ------------------------------------------------------------------ state
VARIABLES
    paragraphs,        \* doc.paragraphs: the flat paragraph sequence
    min_level,         \* WordDocumentSplitter.min_level (the target level)
    pc,                \* position inside process_single_document
    all_headings,      \* analyze_document_structure: all_headings
    i,                 \* number of headings the scan has visited
    current_levels,    \* analyze_document_structure: current_levels
    branch_max_level,  \* _should_create_chapter_at_position: last value
    chapters,          \* the chapter list
    submitted,         \* chapters handed to create_chapter_document
    result,            \* what process_single_document returned ("" = not yet)
    \* -- table association (_copy_tables_in_range)
    module_file,       \* which copy of word_splitter.py is running
    document_elements, \* the interleaved paragraph/table order of the body
    paragraph_ranges,  \* chapter.paragraphs of every chapter of the document
    tables_to_copy,    \* per chapter handled so far: its tables_to_copy list
    \* -- heading classification (_calculate_outline_level)
    raw_paragraphs,    \* the paragraphs with their style, attribute and text
    \* -- file names (_sanitize_filename)
    title,             \* the chapter title, a sequence of characters
    filename,          \* the sanitized name, a sequence of characters
    sanitize_pc,       \* "idle", "title" (not sanitized yet) or "done"
    \* -- DocumentProcessor: the documents and their chapter workers
    file_thread_count,    \* self.file_thread_count
    chapter_thread_count, \* self.chapter_thread_count
    chapter_counts,       \* per document: len(chapters) of its analysis
    doc_status,           \* per document: "queued", "running", or its result
    futures,              \* per document: its list of futures
    collected,            \* per document: the futures as_completed has yielded
    created_files,        \* per document: created_files
    failed_count,         \* per document: failed_count
    lock,                 \* self.splitter.lock: its holder, or NoHolder
    \* -- concurrent calls of analyze_document_structure on one splitter
    calls,             \* per thread: the local variables of its call
    frames,            \* per frame: the current_levels dictionary kept there
    \* -- the batch entry points and the input directory
    entry_point,       \* the entry point that runs the batch
    input_dir,         \* the files of the input directory
    submitted_docs     \* the files handed to the document pool

plannerVars == << paragraphs, min_level, pc, all_headings, i, current_levels,
                  branch_max_level, chapters, submitted, result >>

tableVars == << module_file, document_elements, paragraph_ranges, tables_to_copy >>

\* The variables the planner does not touch.
sanitizeVars == << title, filename, sanitize_pc >>
processorVars == << file_thread_count, chapter_thread_count, chapter_counts,
                    doc_status, futures, collected, created_files,
                    failed_count, lock >>
threadVars == << calls, frames >>
batchVars == << entry_point, input_dir, submitted_docs >>
otherVars == << tableVars, raw_paragraphs, sanitizeVars, processorVars, threadVars,
               batchVars >>

vars == << plannerVars, otherVars >>

\* No file name is being sanitized.
SanitizeIdle ==
    /\ title = << >>
    /\ filename = << >>
    /\ sanitize_pc = "idle"

\* No document is being processed.
ProcessorIdle ==
    /\ file_thread_count = 0
    /\ chapter_thread_count = 0
    /\ chapter_counts = << >>
    /\ doc_status = << >>
    /\ futures = << >>
    /\ collected = << >>
    /\ created_files = << >>
    /\ failed_count = << >>
    /\ lock = << >>

\* No call of analyze_document_structure runs on a pool thread.
ThreadsIdle ==
    /\ calls = << >>
    /\ frames = << >>

\* No batch was started.
BatchIdle ==
    /\ entry_point = ""
    /\ input_dir = {}
    /\ submitted_docs = {}

\* ------------------------------------------------------------------ helpers
Max2(a, b) == IF a >= b THEN a ELSE b
Min2(a, b) == IF a <= b THEN a ELSE b

\* An empty dict.
EmptyMap == [k \in {} |-> ""]

\* d[key] = value on a dict.
Put(d, key, value) ==
    [k \in (DOMAIN d) \cup {key} |-> IF k = key THEN value ELSE d[k]]

\* keys_to_remove = [k for k in current_levels.keys() if k > outline_level]
\* followed by the deletion of those keys.  (PruneDeeperNone: the deletion
\* is forgotten.)
PruneDeeperNone(levels, outline_level) == levels

PruneDeeper(levels, outline_level) ==
    [k \in {k \in DOMAIN levels : ~(k > outline_level)} |-> levels[k]]

\* str.strip() on the texts of the model.
Strip(text) == IF text = Blank THEN "" ELSE text

\* list(range(a, b + 1))
RangeList(a, b) == [j \in 1..(b - a + 1) |-> a + j - 1]

\* The first loop of analyze_document_structure (and the same loop at the
\* top of _set_chapter_boundaries): the paragraphs with an outline level > 0
\* and a non-empty stripped text, in document order.
CollectHeadingsOf(paras) ==
    LET rec(k) == [level           |-> paras[k].outline_level,
                   title           |-> Strip(paras[k].text),
                   paragraph_index |-> k - 1]
        all == [k \in 1..Len(paras) |-> rec(k)]
    IN  SelectSeq(all, LAMBDA h : h.level > 0 /\ h.title /= "")

\* The path loops of _get_branch_max_level and _belongs_to_current_branch:
\* over headings 1..n in order, path[level] = title for every heading whose
\* level <= current_level (a later heading overwrites an earlier one).
RECURSIVE BuildPath(_, _, _)
BuildPath(headings, n, current_level) ==
    IF n = 0 THEN EmptyMap
    ELSE LET before == BuildPath(headings, n - 1, current_level)
             h == headings[n]
         IN  IF h.level <= current_level
               THEN Put(before, h.level, h.title)
               ELSE before

\* BelongsByOwnPath: the path to the examined heading is rebuilt and
\* compared down to that heading's own level.
BelongsByOwnPath(headings, heading_index, current_path, current_level) ==
    LET own == headings[heading_index].level
        path_to_heading == BuildPath(headings, heading_index, own)
        Mismatch(level) ==
            IF level \in DOMAIN current_path /\ level \in DOMAIN path_to_heading
              THEN current_path[level] /= path_to_heading[level]
              ELSE level \in DOMAIN current_path \/ level \in DOMAIN path_to_heading
    IN  \A level \in 1..own : ~Mismatch(level)

_belongs_to_current_branch(headings, heading_index, current_path, current_level) ==
    LET path_to_heading == BuildPath(headings, heading_index, current_level)
        Mismatch(level) ==
            IF level \in DOMAIN current_path /\ level \in DOMAIN path_to_heading
              THEN current_path[level] /= path_to_heading[level]
              ELSE level \in DOMAIN current_path \/ level \in DOMAIN path_to_heading
    IN  \A level \in 1..current_level : ~Mismatch(level)

\* ScanBranchPastSiblings: a heading of the SAME level does not close the
\* branch (the break tests < instead of <=).
RECURSIVE ScanBranchPastSiblings(_, _, _, _, _)
ScanBranchPastSiblings(headings, j, current_path, current_level, max_level) ==
    IF j > Len(headings) THEN max_level
    ELSE IF headings[j].level < current_level THEN max_level
    ELSE ScanBranchPastSiblings(headings, j + 1, current_path, current_level,
                                Max2(max_level, headings[j].level))

\* The forward loop of _get_branch_max_level from heading j on.
RECURSIVE ScanBranch(_, _, _, _, _)
ScanBranch(headings, j, current_path, current_level, max_level) ==
    IF j > Len(headings) THEN max_level
    ELSE IF headings[j].level <= current_level THEN max_level
    ELSE ScanBranch(headings, j + 1, current_path, current_level,
                    IF _belongs_to_current_branch(headings, j, current_path, current_level)
                      THEN Max2(max_level, headings[j].level)
                      ELSE max_level)

\* DocumentMaxLevel: the depth of the whole document instead of the depth
\* of the branch of the heading.
DocumentMaxLevel(headings, current_index, current_level) ==
    LET present == {headings[k].level : k \in 1..Len(headings)} \cup {current_level}
    IN  CHOOSE m \in present : \A o \in present : o <= m

_get_branch_max_level(headings, current_index, current_level) ==
    LET current_path == BuildPath(headings, current_index, current_level)
    IN  ScanBranch(headings, current_index + 1, current_path, current_level,
                   current_level)

\* ShouldCreateAtDeepest: the effective level is the max, not the min, of the
\* target level and the branch depth.
ShouldCreateAtDeepest(headings, current_index, current_level, target) ==
    current_level =
        Max2(target, ScanBranch(headings, current_index + 1,
                                BuildPath(headings, current_index, current_level),
                                current_level, current_level))

\* ShouldCreateAtOrBelow: the test is >= instead of ==, so that the headings
\* deeper than the effective level start chapters too.
ShouldCreateAtOrBelow(headings, current_index, current_level, target) ==
    current_level >=
        Min2(target, ScanBranch(headings, current_index + 1,
                                BuildPath(headings, current_index, current_level),
                                current_level, current_level))

\* ShouldCreateAtFixedLevel: the split level is the target level, whatever
\* the depth of the branch.
ShouldCreateAtFixedLevel(headings, current_index, current_level, target) ==
    current_level = target

_should_create_chapter_at_position(headings, current_index, current_level, target) ==
    LET effective_min_level ==
            Min2(target, _get_branch_max_level(headings, current_index, current_level))
    IN  current_level = effective_min_level

\* ' - '.join(titles)
RECURSIVE JoinTitles(_)
JoinTitles(titles) ==
    IF Len(titles) = 0 THEN ""
    ELSE IF Len(titles) = 1 THEN titles[1]
    ELSE titles[1] \o " - " \o JoinTitles(Tail(titles))

\* TitlesUpToStrict: the level test is < instead of <=, which leaves the
\* heading's own title out.
RECURSIVE TitlesUpToStrict(_, _, _)
TitlesUpToStrict(levels, keys, target_level) ==
    IF keys = {} THEN << >>
    ELSE LET level == CHOOSE k \in keys : \A o \in keys : k <= o
             rest == TitlesUpToStrict(levels, keys \ {level}, target_level)
         IN  IF level < target_level
               THEN << levels[level].title >> \o rest
               ELSE rest

\* The titles of the entries of levels with level <= target_level, in
\* ascending level order (for level in sorted(current_levels.keys())).
RECURSIVE TitlesUpTo(_, _, _)
TitlesUpTo(levels, keys, target_level) ==
    IF keys = {} THEN << >>
    ELSE LET level == CHOOSE k \in keys : \A o \in keys : k <= o
             rest == TitlesUpTo(levels, keys \ {level}, target_level)
         IN  IF level <= target_level
               THEN << levels[level].title >> \o rest
               ELSE rest

\* The fallback title f"<zhangjie>_{target_level}"; the two CJK characters of
\* the program's literal ("chapter") are written "chapter" here.
FallbackTitle(target_level) == "chapter_" \o ToString(target_level)

_build_chapter_title(levels, target_level) ==
    LET titles == TitlesUpTo(levels, DOMAIN levels, target_level)
    IN  IF Len(titles) > 0 THEN JoinTitles(titles) ELSE FallbackTitle(target_level)

\* ClampEndAnyLevel: the level test of the clamp is forgotten, so that any
\* heading between the two chapter starts cuts the chapter.
RECURSIVE ClampEndAnyLevel(_, _, _, _, _)
ClampEndAnyLevel(positions, j, chapter, next_start, chapter_end) ==
    IF j > Len(positions) THEN chapter_end
    ELSE IF /\ chapter.start_paragraph < positions[j].paragraph_index
            /\ positions[j].paragraph_index < next_start
           THEN positions[j].paragraph_index - 1
    ELSE ClampEndAnyLevel(positions, j + 1, chapter, next_start, chapter_end)

\* ClampEndStrictlyShallower: the clamp looks for a strictly shallower
\* heading (< instead of <=).
RECURSIVE ClampEndStrictlyShallower(_, _, _, _, _)
ClampEndStrictlyShallower(positions, j, chapter, next_start, chapter_end) ==
    IF j > Len(positions) THEN chapter_end
    ELSE IF /\ chapter.start_paragraph < positions[j].paragraph_index
            /\ positions[j].paragraph_index < next_start
            /\ positions[j].level < chapter.level
           THEN positions[j].paragraph_index - 1
    ELSE ClampEndStrictlyShallower(positions, j + 1, chapter, next_start, chapter_end)

\* The inner loop of _set_chapter_boundaries: the end of a chapter that is
\* not the last, scanning the heading positions from index j on.
RECURSIVE ClampEnd(_, _, _, _, _)
ClampEnd(positions, j, chapter, next_start, chapter_end) ==
    IF j > Len(positions) THEN chapter_end
    ELSE IF /\ chapter.start_paragraph < positions[j].paragraph_index
            /\ positions[j].paragraph_index < next_start
            /\ positions[j].level <= chapter.level
           THEN positions[j].paragraph_index - 1
    ELSE ClampEnd(positions, j + 1, chapter, next_start, chapter_end)

\* ChapterEndByHeadingCount: the last chapter ends at the number of
\* headings, not of paragraphs, minus one.
ChapterEndByHeadingCount(chs, k, total_paragraphs, all_heading_positions) ==
    IF k < Len(chs)
      THEN Max2(chs[k].start_paragraph,
                ClampEnd(all_heading_positions, 1, chs[k],
                         chs[k + 1].start_paragraph,
                         chs[k + 1].start_paragraph - 1))
      ELSE Len(all_heading_positions) - 1

\* ChapterEndAtNextStart: the default end is the start of the next chapter
\* (the "- 1" is forgotten).
ChapterEndAtNextStart(chs, k, total_paragraphs, all_heading_positions) ==
    IF k < Len(chs)
      THEN Max2(chs[k].start_paragraph,
                ClampEnd(all_heading_positions, 1, chs[k],
                         chs[k + 1].start_paragraph,
                         chs[k + 1].start_paragraph))
      ELSE total_paragraphs - 1

\* The body of the chapter loop of _set_chapter_boundaries: the
\* end_paragraph given to chapter k.
ChapterEnd(chs, k, total_paragraphs, all_heading_positions) ==
    IF k < Len(chs)
      THEN Max2(chs[k].start_paragraph,
                ClampEnd(all_heading_positions, 1, chs[k],
                         chs[k + 1].start_paragraph,
                         chs[k + 1].start_paragraph - 1))
      ELSE total_paragraphs - 1

\* BoundariesSetDroppingEmpty: a chapter that holds nothing but its heading
\* paragraph is dropped from the list.
BoundariesSetDroppingEmpty(chs, total_paragraphs, paras) ==
    LET all_heading_positions == CollectHeadingsOf(paras)
        EndOf(k) == ChapterEnd(chs, k, total_paragraphs, all_heading_positions)
        resolved == [k \in 1..Len(chs) |->
                        [chs[k] EXCEPT !.end_paragraph = EndOf(k),
                                       !.paragraphs = RangeList(chs[k].start_paragraph, EndOf(k))]]
    IN  SelectSeq(resolved, LAMBDA ch : ch.end_paragraph > ch.start_paragraph)

\* _set_chapter_boundaries on a non-empty chapter list.
BoundariesSet(chs, total_paragraphs, paras) ==
    LET all_heading_positions == CollectHeadingsOf(paras)
        EndOf(k) == ChapterEnd(chs, k, total_paragraphs, all_heading_positions)
    IN  [k \in 1..Len(chs) |->
            [chs[k] EXCEPT !.end_paragraph = EndOf(k),
                           !.paragraphs = RangeList(chs[k].start_paragraph, EndOf(k))]]

\* ------------------------------------------------- table association
\* The two copies of the module in the repository: word_splitter.py beside
\* main.py (the one main.py imports) and src/word_splitter.py.
TopLevelModule == "word_splitter.py"
PackageModule == "src/word_splitter.py"
Modules == {TopLevelModule, PackageModule}

\* prev_para_index / next_para_index = None
NoParagraph == -1

\* The loops "for j in range(i-1, -1, -1)" (step = -1) and
\* "for j in range(i+1, len(document_elements))" (step = 1): the index of the
\* nearest paragraph element from element j on, in the direction of step.
RECURSIVE NearestParagraph(_, _, _)
NearestParagraph(elements, j, step) ==
    IF j < 1 \/ j > Len(elements) THEN NoParagraph
    ELSE IF elements[j].type = "paragraph" THEN elements[j].index
    ELSE NearestParagraph(elements, j + step, step)

\* x in paragraph_range
InRange(x, paragraph_range) ==
    \E k \in 1..Len(paragraph_range) : paragraph_range[k] = x

\* should_copy_table of src/word_splitter.py for the table at element t.
ShouldCopyTable(elements, t, paragraph_range) ==
    LET prev_para_index == NearestParagraph(elements, t - 1, -1)
        next_para_index == NearestParagraph(elements, t + 1, 1)
    IN  IF prev_para_index /= NoParagraph /\ InRange(prev_para_index, paragraph_range)
          THEN IF next_para_index = NoParagraph
                    \/ ~InRange(next_para_index, paragraph_range)
                 THEN TRUE
                 ELSE IF InRange(next_para_index, paragraph_range)
                        THEN TRUE
                        ELSE FALSE
          ELSE FALSE

\* should_copy_table of the top-level word_splitter.py for the table at
\* element t: the paragraph before the table decides, and when it is not in
\* the range (or there is none) the paragraph after the table decides.
ShouldCopyTableTopLevel(elements, t, paragraph_range) ==
    LET prev_para_index == NearestParagraph(elements, t - 1, -1)
        next_para_index == NearestParagraph(elements, t + 1, 1)
        by_previous == prev_para_index /= NoParagraph
                          /\ InRange(prev_para_index, paragraph_range)
    IN  IF by_previous THEN TRUE
        ELSE next_para_index /= NoParagraph /\ InRange(next_para_index, paragraph_range)

\* The loop over document_elements from element t on: the tables_to_copy
\* list of the copy `file` of the module.
RECURSIVE TablesFrom(_, _, _, _)
TablesFrom(file, elements, t, paragraph_range) ==
    IF t > Len(elements) THEN << >>
    ELSE LET rest == TablesFrom(file, elements, t + 1, paragraph_range)
             should_copy_table ==
                 IF file = PackageModule
                   THEN ShouldCopyTable(elements, t, paragraph_range)
                   ELSE ShouldCopyTableTopLevel(elements, t, paragraph_range)
         IN  IF elements[t].type = "table" /\ should_copy_table
               THEN << elements[t].index >> \o rest
               ELSE rest

\* tables_to_copy of _copy_tables_in_range ("if not paragraph_range: return"
\* of src/word_splitter.py gives the empty list, as the loop does).
_copy_tables_in_range(file, elements, paragraph_range) ==
    IF file = PackageModule /\ Len(paragraph_range) = 0 THEN << >>
    ELSE TablesFrom(file, elements, 1, paragraph_range)

\* The body elements of a document, the paragraphs and the tables being
\* numbered separately in document order (para_index, table_index).
ElementsOf(types) ==
    [k \in 1..Len(types) |->
        [type  |-> types[k],
         index |-> Cardinality({j \in 1..(k - 1) : types[j] = types[k]})]]

ElementOrders ==
    {ElementsOf(types) :
        types \in UNION {[1..n -> {"paragraph", "table"}] : n \in 1..MaxElements}}

ParagraphCount(elements) ==
    Cardinality({k \in 1..Len(elements) : elements[k].type = "paragraph"})

\* The paragraph lists a planner output of one or two chapters can have in
\* a document of n paragraphs: contiguous, in increasing order, disjoint.
ChapterRanges(n) ==
    LET P == 0..(n - 1)
    IN  {<< RangeList(r[1], r[2]) >> : r \in {r \in P \X P : r[1] <= r[2]}}
          \cup {<< RangeList(r[1], r[2]), RangeList(r[3], r[4]) >> :
                   r \in {r \in P \X P \X P \X P :
                             r[1] <= r[2] /\ r[2] < r[3] /\ r[3] <= r[4]}}

TablesIdle ==
    /\ module_file = ""
    /\ document_elements = << >>
    /\ paragraph_ranges = << >>
    /\ tables_to_copy = EmptyMap

PlannerIdle ==
    /\ paragraphs = << >>
    /\ min_level = 0
    /\ pc = "idle"
    /\ all_headings = << >>
    /\ i = 0
    /\ current_levels = EmptyMap
    /\ branch_max_level = 0
    /\ chapters = << >>
    /\ submitted = {}
    /\ result = ""

InitTables ==
    /\ PlannerIdle
    /\ raw_paragraphs = << >>
    /\ SanitizeIdle
    /\ ProcessorIdle
    /\ ThreadsIdle
    /\ BatchIdle
    /\ module_file \in Modules
    /\ document_elements \in ElementOrders
    /\ paragraph_ranges \in ChapterRanges(ParagraphCount(document_elements))
    /\ tables_to_copy = EmptyMap

\* create_chapter_document of one chapter, up to the call of
\* _copy_tables_in_range(original_doc, new_doc, chapter.paragraphs).
CopyTablesInRange ==
    /\ \E c \in 1..Len(paragraph_ranges) :
          /\ c \notin DOMAIN tables_to_copy
          /\ tables_to_copy' =
                 Put(tables_to_copy, c,
                     _copy_tables_in_range(module_file, document_elements,
                                           paragraph_ranges[c]))
    /\ UNCHANGED << module_file, document_elements, paragraph_ranges >>
    /\ UNCHANGED << plannerVars, raw_paragraphs, sanitizeVars, processorVars,
                    threadVars, batchVars >>

NextTables == CopyTablesInRange

SpecTables == InitTables /\ [][NextTables]_vars

\* ----------------------------------------------------------- file names
\* A title is a sequence of characters; one character stands for each class
\* _sanitize_filename tells apart:
\*   "a"     an ordinary character
\*   " "     the space
\*   "TAB"   u3000, tab, newline or carriage return
\*   "/"     one of the characters of invalid_chars
\*   "NUL"   a control character, x00-x1f or x7f-x9f, other than the above
\*   "NBSP"  any other whitespace character (xa0, u2003, ...)
\*   "_"     the underscore
Characters == {"a", " ", "TAB", "/", "NUL", "NBSP"}
invalid_chars == {"/"}
ControlCharacters == {"NUL", "TAB"}
Whitespace == {" ", "TAB", "NBSP"}

\* The placeholder of an empty name: five CJK characters, ordinary ones.
DefaultName == << "a", "a", "a", "a", "a" >>

Padding(n) == [k \in 1..n |-> "a"]
PadLengths == {0, FilenameCap - 1, FilenameCap}
SuffixesOf(n) == UNION {[1..m -> Characters] : m \in 0..n}
TitleStrings == {Padding(n) \o suffix : n \in PadLengths, suffix \in SuffixesOf(MaxTitleSuffix)}

\* str.replace(old, new) for each character of olds
Replace(s, olds, new) == [k \in 1..Len(s) |-> IF s[k] \in olds THEN new ELSE s[k]]

\* re.sub(r'[...]', '', s)
Remove(s, set) == SelectSeq(s, LAMBDA c : c \notin set)

\* re.sub(r'\s+', ' ', s): every run of whitespace becomes one space
CompressSpaces(s) ==
    LET marked == [k \in 1..Len(s) |->
                     IF s[k] \notin Whitespace THEN s[k]
                     ELSE IF k > 1 /\ s[k - 1] \in Whitespace THEN "" ELSE " "]
    IN  SelectSeq(marked, LAMBDA c : c /= "")

\* str.strip()
StripSpaces(s) ==
    LET kept == {k \in 1..Len(s) : s[k] \notin Whitespace}
    IN  IF kept = {} THEN << >>
        ELSE SubSeq(s, CHOOSE a \in kept : \A k \in kept : a <= k,
                       CHOOSE b \in kept : \A k \in kept : k <= b)

\* SanitizeKeepEmpty: no default name for an empty result.
SanitizeKeepEmpty(name) ==
    LET spaced   == Replace(name, {"TAB"}, " ")
        replaced == Replace(spaced, invalid_chars, "_")
        cleaned  == Remove(replaced, ControlCharacters)
        stripped == StripSpaces(CompressSpaces(cleaned))
    IN  SubSeq(stripped, 1, Min2(Len(stripped), FilenameCap))

_sanitize_filename(name) ==
    LET spaced   == Replace(name, {"TAB"}, " ")
        replaced == Replace(spaced, invalid_chars, "_")
        cleaned  == Remove(replaced, ControlCharacters)
        stripped == StripSpaces(CompressSpaces(cleaned))
        named    == IF stripped = << >> THEN DefaultName ELSE stripped
    IN  SubSeq(named, 1, Min2(Len(named), FilenameCap))

InitSanitize ==
    /\ PlannerIdle
    /\ TablesIdle
    /\ raw_paragraphs = << >>
    /\ ProcessorIdle
    /\ ThreadsIdle
    /\ BatchIdle
    /\ title \in TitleStrings
    /\ filename = << >>
    /\ sanitize_pc = "title"

\* create_chapter_document: safe_title = self._sanitize_filename(chapter.title)
SanitizeFilename ==
    /\ sanitize_pc = "title"
    /\ filename' = _sanitize_filename(title)
    /\ sanitize_pc' = "done"
    /\ UNCHANGED << title, plannerVars, tableVars, raw_paragraphs, processorVars,
                    threadVars, batchVars >>

NextSanitize == SanitizeFilename

SpecSanitize == InitSanitize /\ [][NextSanitize]_vars

\* --------------------------------------------------- document processor
\* doc_files of process_all_documents
doc_files == {"a.docx", "b.docx"}
\* The thread counts DocumentProcessor.__init__ ends with.
ThreadCounts == {1, 2}
NoHolder == << >>
\* The outcome of analyze_document_structure when the document cannot be
\* opened or analyzed: it raises instead of returning chapters.
AnalysisFails == -1

\* The states of a future: "pending" (submitted, no worker yet), "copying"
\* (create_chapter_document before the lock), "writing" (inside "with
\* self.lock"), "returned", "raised", and "hung" (a copy that never ends).
Completed == {"returned", "raised"}
Active == {"copying", "writing", "hung"}

\* FirstBatchOnly: only as many chapters as there are workers are submitted.
FirstBatchOnly(n, workers) ==
    [j \in 1..workers |-> [chapter |-> j, state |-> "pending"]]

\* futures = [executor.submit(create_chapter_document, doc, chapter, dir)
\*            for chapter in chapters]
SubmittedFutures(n, workers) ==
    [j \in 1..n |-> [chapter |-> j, state |-> "pending"]]

optimal_workers(d) ==
    Min2(Min2(chapter_thread_count, chapter_counts[d]), MaxChapterWorkers)

SetState(d, j, st) ==
    [futures EXCEPT ![d] = [@ EXCEPT ![j] = [@ EXCEPT !.state = st]]]

\* LockAlwaysFree: the lock is taken without looking at its holder.
LockAlwaysFree == TRUE

\* self.lock.acquire() returns only when no thread holds the lock
LockFree == lock = NoHolder

InitProcessor ==
    /\ PlannerIdle
    /\ TablesIdle
    /\ raw_paragraphs = << >>
    /\ SanitizeIdle
    /\ ThreadsIdle
    /\ BatchIdle
    /\ file_thread_count \in ThreadCounts
    /\ chapter_thread_count \in ThreadCounts
    /\ chapter_counts \in [doc_files -> (0..MaxChapters) \cup {AnalysisFails}]
    /\ doc_status = [d \in doc_files |-> "queued"]
    /\ futures = [d \in doc_files |-> << >>]
    /\ collected = [d \in doc_files |-> {}]
    /\ created_files = [d \in doc_files |-> << >>]
    /\ failed_count = [d \in doc_files |-> 0]
    /\ lock = NoHolder

unchangedByProcessor == << plannerVars, tableVars, raw_paragraphs, sanitizeVars,
                          threadVars, batchVars,
                          file_thread_count, chapter_thread_count, chapter_counts >>

\* process_single_document up to the submission of the chapters, run by a
\* free worker of the document pool.
StartDocument(d) ==
    /\ doc_status[d] = "queued"
    /\ chapter_counts[d] /= AnalysisFails
    /\ Cardinality({e \in doc_files : doc_status[e] = "running"}) < file_thread_count
    /\ IF chapter_counts[d] = 0
         THEN /\ doc_status' = [doc_status EXCEPT ![d] = "skipped"]
              /\ UNCHANGED futures
         ELSE /\ doc_status' = [doc_status EXCEPT ![d] = "running"]
              /\ futures' = [futures EXCEPT
                                ![d] = SubmittedFutures(chapter_counts[d], optimal_workers(d))]
    /\ UNCHANGED << collected, created_files, failed_count, lock >>
    /\ UNCHANGED unchangedByProcessor

\* DocumentFailsAbortsBatch: the exception leaves process_all_documents and
\* the documents still waiting are given up.
DocumentFailsAbortsBatch(d) ==
    /\ doc_status[d] = "queued"
    /\ chapter_counts[d] = AnalysisFails
    /\ Cardinality({e \in doc_files : doc_status[e] = "running"}) < file_thread_count
    /\ doc_status' = [e \in doc_files |->
                         IF doc_status[e] = "queued" THEN "failed" ELSE doc_status[e]]
    /\ UNCHANGED << futures, collected, created_files, failed_count, lock >>
    /\ UNCHANGED unchangedByProcessor

\* process_single_document when analyze_document_structure raises: "except
\* Exception" returns the failure result of this document.
DocumentFails(d) ==
    /\ doc_status[d] = "queued"
    /\ chapter_counts[d] = AnalysisFails
    /\ Cardinality({e \in doc_files : doc_status[e] = "running"}) < file_thread_count
    /\ doc_status' = [doc_status EXCEPT ![d] = "failed"]
    /\ UNCHANGED << futures, collected, created_files, failed_count, lock >>
    /\ UNCHANGED unchangedByProcessor

\* A free worker of the document's chapter pool takes a pending future.
StartChapter(d, j) ==
    /\ doc_status[d] = "running"
    /\ futures[d][j].state = "pending"
    /\ Cardinality({k \in 1..Len(futures[d]) : futures[d][k].state \in Active})
          < optimal_workers(d)
    /\ futures' = SetState(d, j, "copying")
    /\ UNCHANGED << doc_status, collected, created_files, failed_count, lock >>
    /\ UNCHANGED unchangedByProcessor

\* create_chapter_document raises before it reaches the lock.
CopyFails(d, j) ==
    /\ futures[d][j].state = "copying"
    /\ futures' = SetState(d, j, "raised")
    /\ UNCHANGED << doc_status, collected, created_files, failed_count, lock >>
    /\ UNCHANGED unchangedByProcessor

\* The copy of the chapter's content never ends.
CopyHangs(d, j) ==
    /\ futures[d][j].state = "copying"
    /\ futures' = SetState(d, j, "hung")
    /\ UNCHANGED << doc_status, collected, created_files, failed_count, lock >>
    /\ UNCHANGED unchangedByProcessor

\* with self.lock:
AcquireLock(d, j) ==
    /\ futures[d][j].state = "copying"
    /\ LockFree
    /\ lock' = << d, j >>
    /\ futures' = SetState(d, j, "writing")
    /\ UNCHANGED << doc_status, collected, created_files, failed_count >>
    /\ UNCHANGED unchangedByProcessor

\* os.makedirs(...); new_doc.save(full_output_path); the lock is released
\* and the path returned.
SaveChapter(d, j) ==
    /\ futures[d][j].state = "writing"
    /\ futures' = SetState(d, j, "returned")
    /\ lock' = NoHolder
    /\ UNCHANGED << doc_status, collected, created_files, failed_count >>
    /\ UNCHANGED unchangedByProcessor

\* makedirs or save raises: the with statement releases the lock.
SaveFails(d, j) ==
    /\ futures[d][j].state = "writing"
    /\ futures' = SetState(d, j, "raised")
    /\ lock' = NoHolder
    /\ UNCHANGED << doc_status, collected, created_files, failed_count >>
    /\ UNCHANGED unchangedByProcessor

\* One round of "for future in as_completed(futures)": as_completed, called
\* without a timeout, yields a future only once it has completed, so
\* future.result(timeout=300) returns or raises at once.
CollectFuture(d, j) ==
    /\ doc_status[d] = "running"
    /\ j \notin collected[d]
    /\ futures[d][j].state \in Completed
    /\ collected' = [collected EXCEPT ![d] = @ \cup {j}]
    /\ IF futures[d][j].state = "returned"
         THEN /\ created_files' = [created_files EXCEPT
                                     ![d] = Append(@, futures[d][j].chapter)]
              /\ UNCHANGED failed_count
         ELSE /\ failed_count' = [failed_count EXCEPT ![d] = @ + 1]
              /\ UNCHANGED created_files
    /\ UNCHANGED << doc_status, futures, lock >>
    /\ UNCHANGED unchangedByProcessor

\* as_completed has yielded every future: the loop and the with block end
\* and process_single_document returns.
FinishDocument(d) ==
    /\ doc_status[d] = "running"
    /\ collected[d] = 1..Len(futures[d])
    /\ doc_status' = [doc_status EXCEPT ![d] = "completed"]
    /\ UNCHANGED << futures, collected, created_files, failed_count, lock >>
    /\ UNCHANGED unchangedByProcessor

NextProcessor ==
    \E d \in doc_files :
        \/ StartDocument(d)
        \/ DocumentFails(d)
        \/ FinishDocument(d)
        \/ \E j \in 1..Len(futures[d]) :
              \/ StartChapter(d, j)
              \/ CopyFails(d, j)
              \/ CopyHangs(d, j)
              \/ AcquireLock(d, j)
              \/ SaveChapter(d, j)
              \/ SaveFails(d, j)
              \/ CollectFuture(d, j)

SpecProcessor == InitProcessor /\ [][NextProcessor]_vars

\* ---------------------------------------------- heading classification
\* A style name, by the first test of _calculate_outline_level it passes:
\*   "Heading"  style_name.startswith('Heading ')
\*   "Biaoti"   the two CJK characters of "title" occur in style_name
\*   "Yangshi"  style_name starts with the two CJK characters of "style"
\*   "Normal"   none of these
\* and by the number read from it: int(level_str) for "Heading" (NoNumber
\* when int raises ValueError), the first run of digits for the two others
\* (NoNumber when the search finds none).
NoNumber == -1
StyleNames ==
    {[family |-> f, number |-> n] :
        f \in {"Heading", "Biaoti", "Yangshi"}, n \in {NoNumber, 2}}
      \cup {[family |-> "Heading", number |-> 0],
            [family |-> "Normal", number |-> NoNumber]}

\* The w:outlineLvl attribute of the paragraph: absent, present with a value
\* int() cannot read, or present with a 0-based level.
NoAttr == -1
BadAttr == -2
OutlineAttrs == {NoAttr, BadAttr, 1}

\* A paragraph text longer than 50 characters.
LongSentence == "this paragraph is an ordinary sentence of the body, far too long to be a heading"

RawParagraphKinds ==
    [style : StyleNames, outline_lvl : OutlineAttrs, text : {"A", Blank, LongSentence}]

RawDocs == UNION {[1..n -> RawParagraphKinds] : n \in 0..MaxRawParas}

\* _looks_like_heading on the texts of the model, none of which starts with
\* a numbering or contains the ideographic full stop: a non-blank text of
\* at most 50 characters.
_looks_like_heading(text) ==
    IF text = "" \/ Strip(text) = "" THEN FALSE
    ELSE Len(Strip(text)) <= 50

\* OutlineAttrFirst: the outline-level attribute is looked at before the
\* style name.
OutlineAttrFirst(paragraph) ==
    IF paragraph.outline_lvl >= 0 THEN paragraph.outline_lvl + 1
    ELSE IF paragraph.style.family \in {"Heading", "Biaoti"}
      THEN IF paragraph.style.number = NoNumber THEN 1 ELSE paragraph.style.number
    ELSE IF paragraph.style.family = "Yangshi"
      THEN IF /\ paragraph.style.number /= NoNumber
              /\ Strip(paragraph.text) /= ""
              /\ _looks_like_heading(Strip(paragraph.text))
             THEN paragraph.style.number
             ELSE 0
    ELSE 0

_calculate_outline_level(paragraph) ==
    LET style_name == paragraph.style
    IN  IF style_name.family = "Heading"
          THEN IF style_name.number /= NoNumber THEN style_name.number ELSE 1
        ELSE IF style_name.family = "Biaoti"
          THEN IF style_name.number /= NoNumber THEN style_name.number ELSE 1
        ELSE IF style_name.family = "Yangshi"
          THEN IF /\ style_name.number /= NoNumber
                  /\ Strip(paragraph.text) /= ""
                  /\ _looks_like_heading(Strip(paragraph.text))
                 THEN style_name.number
                 ELSE 0
        ELSE IF paragraph.outline_lvl = NoAttr THEN 0
        \* int(outline_lvl.get(...)) raises: "except Exception: return 0"
        ELSE IF paragraph.outline_lvl = BadAttr THEN 0
        ELSE paragraph.outline_lvl + 1

_get_outline_level(paragraph) == _calculate_outline_level(paragraph)

InitExtract ==
    /\ raw_paragraphs \in RawDocs
    /\ paragraphs = << >>
    /\ min_level = ExampleTargetLevel
    /\ pc = "classify"
    /\ all_headings = << >>
    /\ i = 0
    /\ current_levels = EmptyMap
    /\ branch_max_level = 0
    /\ chapters = << >>
    /\ submitted = {}
    /\ result = ""
    /\ TablesIdle
    /\ SanitizeIdle
    /\ ProcessorIdle
    /\ ThreadsIdle
    /\ BatchIdle

\* analyze_document_structure, first loop, on styled paragraphs: the outline
\* level of every paragraph, then the heading list.
ExtractHeadings ==
    /\ pc = "classify"
    /\ paragraphs' =
           [k \in 1..Len(raw_paragraphs) |->
               [outline_level |-> _get_outline_level(raw_paragraphs[k]),
                text          |-> raw_paragraphs[k].text]]
    /\ all_headings' = CollectHeadingsOf(paragraphs')
    /\ pc' = "scan"
    /\ UNCHANGED << min_level, i, current_levels, branch_max_level, chapters,
                    submitted, result >>
    /\ UNCHANGED otherVars

NextExtract == ExtractHeadings

SpecExtract == InitExtract /\ [][NextExtract]_vars

\* ----------------------------------------------------- batch entry points
\* A file name of the input directory: whether it starts with '~' (the
\* prefix of the lock files Word writes next to an open document), the rest
\* of its stem, and its suffix.
FileNames == [tilde : BOOLEAN, stem : {"a", "b"}, suffix : {".docx", ".doc", ".txt"}]
InputDirs == {dir \in SUBSET FileNames : Cardinality(dir) <= MaxFiles}
EntryPoints == {"process_all_documents", "main"}

\* list(input_dir.glob('*.docx')) + list(input_dir.glob('*.doc'))
Glob(dir) == {f \in dir : f.suffix = ".docx"} \cup {f \in dir : f.suffix = ".doc"}

\* [f for f in all_files if not f.name.startswith('~')]
WithoutTemporaryFiles(all_files) == {f \in all_files : ~f.tilde}

\* doc_files of DocumentProcessor.process_all_documents
ProcessorDocFiles(dir) == WithoutTemporaryFiles(Glob(dir))

\* doc_files of main(): the two glob lists, as they are
MainDocFiles(dir) == Glob(dir)

InitBatch ==
    /\ PlannerIdle
    /\ TablesIdle
    /\ raw_paragraphs = << >>
    /\ SanitizeIdle
    /\ ProcessorIdle
    /\ ThreadsIdle
    /\ entry_point \in EntryPoints
    /\ input_dir \in InputDirs
    /\ submitted_docs = {}

unchangedByBatch == << plannerVars, tableVars, raw_paragraphs, sanitizeVars,
                      processorVars, threadVars, entry_point, input_dir >>

\* DocumentProcessor.process_all_documents: one future per file of doc_files.
ProcessAllDocuments ==
    /\ entry_point = "process_all_documents"
    /\ submitted_docs = {}
    /\ ProcessorDocFiles(input_dir) /= {}
    /\ submitted_docs' = ProcessorDocFiles(input_dir)
    /\ UNCHANGED unchangedByBatch

\* main() and process_documents_with_progress: one future per file of
\* doc_files.
Main ==
    /\ entry_point = "main"
    /\ submitted_docs = {}
    /\ MainDocFiles(input_dir) /= {}
    /\ submitted_docs' = MainDocFiles(input_dir)
    /\ UNCHANGED unchangedByBatch

NextBatch == ProcessAllDocuments \/ Main

SpecBatch == InitBatch /\ [][NextBatch]_vars

\* ------------------------------------------------- concurrent planning
\* Two pool threads of process_all_documents, each in a call of
\* self.splitter.analyze_document_structure on its own document.
Threads == {1, 2}

\* A document whose first-level heading is followed at once by a
\* third-level one.
JumpDoc ==
    << [outline_level |-> 1, text |-> "B"],
       [outline_level |-> 3, text |-> "A"],
       [outline_level |-> 0, text |-> BodyText] >>

ConcurrentDocs == {ExampleDoc, SameTitlesDoc, JumpDoc}

\* SharedFrame: current_levels is kept in one place for all calls (an
\* attribute of the splitter).
SharedFrame(t) == 1

\* "current_levels = {}" is a local variable: every call has its own.
Frame(t) == t

\* The chapter list of a document planned on its own, from the first loop
\* to _set_chapter_boundaries.
RECURSIVE ScanFrom(_, _, _, _, _)
ScanFrom(headings, k, levels, chs, target) ==
    IF k > Len(headings) THEN chs
    ELSE LET heading == headings[k]
             pruned == PruneDeeper(Put(levels, heading.level,
                                       [title |-> heading.title,
                                        paragraph_index |-> heading.paragraph_index]),
                                   heading.level)
             created ==
                 IF _should_create_chapter_at_position(headings, k, heading.level, target)
                   THEN Append(chs,
                               [title           |-> _build_chapter_title(pruned, heading.level),
                                level           |-> heading.level,
                                start_paragraph |-> heading.paragraph_index,
                                end_paragraph   |-> heading.paragraph_index,
                                paragraphs      |-> << heading.paragraph_index >>])
                   ELSE chs
         IN  ScanFrom(headings, k + 1, pruned, created, target)

analyze_document_structure(paras, target) ==
    LET scanned == ScanFrom(CollectHeadingsOf(paras), 1, EmptyMap, << >>, target)
    IN  IF scanned = << >> THEN scanned
        ELSE BoundariesSet(scanned, Len(paras), paras)

InitConcurrent ==
    /\ paragraphs = << >>
    /\ min_level \in TargetLevels
    /\ pc = "idle"
    /\ all_headings = << >>
    /\ i = 0
    /\ current_levels = EmptyMap
    /\ branch_max_level = 0
    /\ chapters = << >>
    /\ submitted = {}
    /\ result = ""
    /\ TablesIdle
    /\ raw_paragraphs = << >>
    /\ SanitizeIdle
    /\ ProcessorIdle
    /\ BatchIdle
    /\ \E docs \in [Threads -> ConcurrentDocs] :
          /\ docs[1] /= docs[2]
          /\ calls = [t \in Threads |->
                        [paragraphs |-> docs[t], pc |-> "collect",
                         all_headings |-> << >>, i |-> 0, chapters |-> << >>]]
    /\ frames = [f \in Threads |-> EmptyMap]

unchangedByCalls == << plannerVars, tableVars, raw_paragraphs, sanitizeVars,
                      processorVars, batchVars >>

\* Thread t: the start of the call and its first loop.
CallCollectHeadings(t) ==
    /\ calls[t].pc = "collect"
    /\ frames' = [frames EXCEPT ![Frame(t)] = EmptyMap]
    /\ calls' = [calls EXCEPT
                    ![t] = [@ EXCEPT !.all_headings = CollectHeadingsOf(calls[t].paragraphs),
                                     !.pc = "scan"]]
    /\ UNCHANGED unchangedByCalls

\* Thread t: one iteration of the scan over its all_headings.
CallVisitHeading(t) ==
    /\ calls[t].pc = "scan"
    /\ calls[t].i < Len(calls[t].all_headings)
    /\ LET heading == calls[t].all_headings[calls[t].i + 1]
           outline_level == heading.level
           paragraph_index == heading.paragraph_index
           set == Put(frames[Frame(t)], outline_level,
                      [title |-> heading.title, paragraph_index |-> paragraph_index])
           pruned == PruneDeeper(set, outline_level)
           should_create ==
               _should_create_chapter_at_position(calls[t].all_headings, calls[t].i + 1,
                                                  outline_level, min_level)
       IN  /\ frames' = [frames EXCEPT ![Frame(t)] = pruned]
           /\ calls' = [calls EXCEPT
                  ![t] = [@ EXCEPT
                     !.i = @ + 1,
                     !.chapters =
                        IF should_create
                          THEN Append(@,
                                 [title           |-> _build_chapter_title(pruned, outline_level),
                                  level           |-> outline_level,
                                  start_paragraph |-> paragraph_index,
                                  end_paragraph   |-> paragraph_index,
                                  paragraphs      |-> << paragraph_index >>])
                          ELSE @]]
    /\ UNCHANGED unchangedByCalls

\* Thread t: _set_chapter_boundaries and the return of the call.
CallSetChapterBoundaries(t) ==
    /\ calls[t].pc = "scan"
    /\ calls[t].i = Len(calls[t].all_headings)
    /\ calls' = [calls EXCEPT
          ![t] = [@ EXCEPT
             !.chapters = IF @ = << >> THEN @
                          ELSE BoundariesSet(@, Len(calls[t].paragraphs), calls[t].paragraphs),
             !.pc = "analyzed"]]
    /\ UNCHANGED frames
    /\ UNCHANGED unchangedByCalls

NextConcurrent ==
    \E t \in Threads :
        \/ CallCollectHeadings(t)
        \/ CallVisitHeading(t)
        \/ CallSetChapterBoundaries(t)

SpecConcurrent == InitConcurrent /\ [][NextConcurrent]_vars

\* ------------------------------------------------------------------ actions
Init ==
    /\ \E input \in (Docs \X TargetLevels)
                        \cup {<< ExampleDoc, ExampleTargetLevel >>}
                        \cup ({SameTitlesDoc} \X TargetLevels)
                        \cup ({OrphanDoc} \X TargetLevels) :
          /\ paragraphs = input[1]
          /\ min_level = input[2]
    /\ pc = "collect"
    /\ all_headings = << >>
    /\ i = 0
    /\ current_levels = EmptyMap
    /\ branch_max_level = 0
    /\ chapters = << >>
    /\ submitted = {}
    /\ result = ""
    /\ TablesIdle
    /\ raw_paragraphs = << >>
    /\ SanitizeIdle
    /\ ProcessorIdle
    /\ ThreadsIdle
    /\ BatchIdle

\* analyze_document_structure, first loop: collect the headings.
CollectHeadings ==
    /\ pc = "collect"
    /\ all_headings' = CollectHeadingsOf(paragraphs)
    /\ pc' = "scan"
    /\ UNCHANGED << paragraphs, min_level, i, current_levels, branch_max_level,
                    chapters, submitted, result >>
    /\ UNCHANGED otherVars

\* analyze_document_structure, one iteration of the scan over all_headings.
VisitHeading ==
    /\ pc = "scan"
    /\ i < Len(all_headings)
    /\ LET heading == all_headings[i + 1]
           outline_level == heading.level
           paragraph_index == heading.paragraph_index
           set == Put(current_levels, outline_level,
                      [title |-> heading.title, paragraph_index |-> paragraph_index])
           pruned == PruneDeeper(set, outline_level)
           should_create ==
               _should_create_chapter_at_position(all_headings, i + 1,
                                                  outline_level, min_level)
       IN  /\ current_levels' = pruned
           /\ branch_max_level' =
                  _get_branch_max_level(all_headings, i + 1, outline_level)
           /\ chapters' =
                  IF should_create
                    THEN Append(chapters,
                                [title           |-> _build_chapter_title(pruned, outline_level),
                                 level           |-> outline_level,
                                 start_paragraph |-> paragraph_index,
                                 end_paragraph   |-> paragraph_index,
                                 paragraphs      |-> << paragraph_index >>])
                    ELSE chapters
    /\ i' = i + 1
    /\ UNCHANGED << paragraphs, min_level, pc, all_headings, submitted, result >>
    /\ UNCHANGED otherVars

\* _set_chapter_boundaries, called once the scan is over (or was skipped
\* because no heading was found).
SetChapterBoundaries ==
    /\ pc = "scan"
    /\ i = Len(all_headings)
    /\ chapters' = IF chapters = << >>
                     THEN chapters
                     ELSE BoundariesSet(chapters, Len(paragraphs), paragraphs)
    /\ pc' = "analyzed"
    /\ UNCHANGED << paragraphs, min_level, all_headings, i, current_levels,
                    branch_max_level, submitted, result >>
    /\ UNCHANGED otherVars

\* ReturnSkippedAsCompleted: the "if not chapters" test is missing, so the
\* document goes on to the chapter pool with nothing to do and is reported
\* as completed.
ReturnSkippedAsCompleted ==
    /\ pc = "analyzed"
    /\ chapters = << >>
    /\ result' = "completed"
    /\ pc' = "done"
    /\ UNCHANGED << paragraphs, min_level, all_headings, i, current_levels,
                    branch_max_level, chapters, submitted >>
    /\ UNCHANGED otherVars

\* process_single_document: "if not chapters: return <skipped>: name".  The
\* CJK prefixes of the program's result strings are written in English.
ReturnSkipped ==
    /\ pc = "analyzed"
    /\ chapters = << >>
    /\ result' = "skipped"
    /\ pc' = "done"
    /\ UNCHANGED << paragraphs, min_level, all_headings, i, current_levels,
                    branch_max_level, chapters, submitted >>
    /\ UNCHANGED otherVars

\* process_single_document: every chapter is submitted to the chapter pool.
SubmitChapters ==
    /\ pc = "analyzed"
    /\ chapters /= << >>
    /\ submitted' = 1..Len(chapters)
    /\ pc' = "submitted"
    /\ UNCHANGED << paragraphs, min_level, all_headings, i, current_levels,
                    branch_max_level, chapters, result >>
    /\ UNCHANGED otherVars

Next ==
    \/ CollectHeadings
    \/ VisitHeading
    \/ SetChapterBoundaries
    \/ ReturnSkipped
    \/ SubmitChapters

Spec == Init /\ [][Next]_vars

\* ================================================================== claims
\* Heading k of all_headings is a split point under the adaptive rule.
IsSplitPoint(k) ==
    all_headings[k].level =
        Min2(min_level,
             _get_branch_max_level(all_headings, k, all_headings[k].level))

\* The split points among the headings the scan has visited so far.
VisitedSplitPoints == {k \in 1..i : IsSplitPoint(k)}

\* The n-th smallest element of a set of integers.
NthOf(S, n) == CHOOSE k \in S : Cardinality({j \in S : j <= k}) = n

Analyzed == pc \in {"analyzed", "submitted", "done"}

\* C1: the heading at index k with level L starts a chapter iff
\* L = min(targetLevel, maxDepth(headings, k, L)); one chapter per such
\* heading, in order, with level = L and start_paragraph = the heading's
\* position, and no chapter anywhere else.
C1_SplitRule ==
    /\ Len(chapters) = Cardinality(VisitedSplitPoints)
    /\ \A c \in 1..Len(chapters) :
          LET k == NthOf(VisitedSplitPoints, c)
          IN  /\ chapters[c].level = all_headings[k].level
              /\ chapters[c].start_paragraph = all_headings[k].paragraph_index

\* A finished scan that split at some headings and not at others, one of
\* the split headings being shallower than the target level.
C1_Witness ==
    /\ pc = "analyzed"
    /\ Len(chapters) >= 1
    /\ Len(chapters) < Len(all_headings)
    /\ \E c \in 1..Len(chapters) : chapters[c].level < min_level

ExampleHeadings ==
    << [level |-> 1, title |-> "A", paragraph_index |-> 0],
       [level |-> 2, title |-> "A.1", paragraph_index |-> 1],
       [level |-> 1, title |-> "B", paragraph_index |-> 2],
       [level |-> 2, title |-> "B.1", paragraph_index |-> 3],
       [level |-> 3, title |-> "B.1.1", paragraph_index |-> 4] >>

\* C2: for the headings (1,A,0) (2,A.1,1) (1,B,2) (2,B.1,3) (3,B.1.1,4) and
\* targetLevel 5 the planner returns exactly two chapters, "A - A.1" of
\* level 2 starting at paragraph 1 and "B - B.1 - B.1.1" of level 3 starting
\* at paragraph 4.
C2_AdaptiveExample ==
    (Analyzed /\ all_headings = ExampleHeadings /\ min_level = 5) =>
        /\ Len(chapters) = 2
        /\ chapters[1].title = "A - A.1"
        /\ chapters[1].level = 2
        /\ chapters[1].start_paragraph = 1
        /\ chapters[2].title = "B - B.1 - B.1.1"
        /\ chapters[2].level = 3
        /\ chapters[2].start_paragraph = 4

C2_Witness == pc = "analyzed" /\ all_headings = ExampleHeadings /\ min_level = 5

\* The ancestor path recorded for heading j with respect to `level`: per
\* level <= `level`, the title of the most recent heading of that level
\* among headings 1..j.
RecordedPath(j, level) ==
    LET seen == {m \in 1..j : all_headings[m].level <= level}
        Latest(l) == CHOOSE m \in seen :
                        /\ all_headings[m].level = l
                        /\ \A o \in seen : all_headings[o].level = l => o <= m
    IN  [l \in {all_headings[m].level : m \in seen} |-> all_headings[Latest(l)].title]

\* The index of the first heading after k whose level <= the level of
\* heading k, or Len + 1 when there is none.
BranchStop(k) ==
    LET closing == {j \in (k + 1)..Len(all_headings) :
                       all_headings[j].level <= all_headings[k].level}
    IN  IF closing = {} THEN Len(all_headings) + 1
        ELSE CHOOSE j \in closing : \A o \in closing : j <= o

\* The largest element of a non-empty set of integers.
MaxOf(S) == CHOOSE m \in S : \A o \in S : o <= m

\* C3: maxDepth(headings, k, level of k) is the largest level among heading
\* k and the headings scanned after it, up to and excluding the first one
\* whose level <= level, whose recorded ancestor path equals that of heading
\* k; it is >= level.
C3_BranchMaxLevel ==
    (i >= 1) =>
        LET level == all_headings[i].level
            branch == {j \in (i + 1)..(BranchStop(i) - 1) :
                          RecordedPath(j, level) = RecordedPath(i, level)}
        IN  /\ branch_max_level =
                  MaxOf({level} \cup {all_headings[j].level : j \in branch})
            /\ branch_max_level >= level

\* The branch of the visited heading goes deeper than the heading, is closed
\* by a later heading, and a heading after the closing one is deeper still.
C3_Witness ==
    /\ i >= 1
    /\ BranchStop(i) <= Len(all_headings)
    /\ \E j \in (BranchStop(i) + 1)..Len(all_headings) :
          all_headings[j].level > branch_max_level

\* The parent of heading k: the nearest earlier heading with a strictly
\* smaller level (0 when there is none).
Parent(k) ==
    LET shallower == {j \in 1..(k - 1) : all_headings[j].level < all_headings[k].level}
    IN  IF shallower = {} THEN 0 ELSE MaxOf(shallower)

RECURSIVE AncestorsOrSelf(_)
AncestorsOrSelf(k) == IF k = 0 THEN {} ELSE {k} \cup AncestorsOrSelf(Parent(k))

\* C4: after the planner visited heading h of level L, CurrentPath holds an
\* entry at exactly the levels of h and of h's ancestors, each entry being
\* that heading's title and position, and no entry at a level > L.
C4_CurrentPath ==
    IF i = 0 THEN current_levels = EmptyMap
    ELSE LET chain == AncestorsOrSelf(i)
         IN  /\ DOMAIN current_levels = {all_headings[k].level : k \in chain}
             /\ \A k \in chain :
                   current_levels[all_headings[k].level] =
                       [title           |-> all_headings[k].title,
                        paragraph_index |-> all_headings[k].paragraph_index]
             /\ \A l \in DOMAIN current_levels : l <= all_headings[i].level

\* The scan just visited a heading shallower than the one before it, which
\* was reached by a level jump, and the path still holds an ancestor.
C4_Witness ==
    /\ pc = "scan"
    /\ i >= 3
    /\ all_headings[i].level < all_headings[i - 1].level
    /\ all_headings[i - 1].level > all_headings[i - 2].level + 1
    /\ Cardinality(DOMAIN current_levels) >= 2

\* The smallest element of a non-empty set of integers.
MinOf(S) == CHOOSE m \in S : \A o \in S : m <= o

\* The positions of the headings strictly between the starts of chapters k
\* and k + 1 whose level <= the level of chapter k.
ClosingPositions(k) ==
    {all_headings[h].paragraph_index : h \in
        {h \in 1..Len(all_headings) :
            /\ chapters[k].start_paragraph < all_headings[h].paragraph_index
            /\ all_headings[h].paragraph_index < chapters[k + 1].start_paragraph
            /\ all_headings[h].level <= chapters[k].level}}

\* The end the claim gives to chapter k.
ResolvedEnd(k) ==
    IF k < Len(chapters)
      THEN Max2(chapters[k].start_paragraph,
                IF ClosingPositions(k) /= {}
                  THEN MinOf(ClosingPositions(k)) - 1
                  ELSE chapters[k + 1].start_paragraph - 1)
      ELSE Len(paragraphs) - 1

\* C5: after planning, a chapter that is not the last ends at
\* max(start, e), e being one less than the position of the first heading
\* strictly between its start and the next start whose level <= its level,
\* or next start - 1 when there is none; the last chapter ends at
\* total_paragraph_count - 1; paragraphs is the range start..end.
C5_EndBoundaries ==
    Analyzed =>
        \A k \in 1..Len(chapters) :
            /\ chapters[k].end_paragraph = ResolvedEnd(k)
            /\ Len(chapters[k].paragraphs) =
                   chapters[k].end_paragraph - chapters[k].start_paragraph + 1
            /\ \A j \in 1..Len(chapters[k].paragraphs) :
                   chapters[k].paragraphs[j] = chapters[k].start_paragraph + j - 1

\* Boundaries were resolved and a chapter was cut by a closing heading, so
\* that it ends earlier than right before the next chapter.
C5_Witness ==
    /\ pc = "analyzed"
    /\ \E k \in 1..(Len(chapters) - 1) :
          /\ ClosingPositions(k) /= {}
          /\ chapters[k].end_paragraph < chapters[k + 1].start_paragraph - 1

\* C6: every chapter has end_paragraph >= start_paragraph.
C6_EndNotBeforeStart ==
    \A k \in 1..Len(chapters) :
        chapters[k].end_paragraph >= chapters[k].start_paragraph

\* Boundaries were resolved for a last chapter that starts after a body
\* paragraph and ends where it starts.
C6_Witness ==
    /\ pc = "analyzed"
    /\ Len(chapters) >= 1
    /\ chapters[Len(chapters)].start_paragraph >= 1
    /\ chapters[Len(chapters)].end_paragraph = chapters[Len(chapters)].start_paragraph

\* The set of paragraph indices of chapter k.
ParagraphSet(k) ==
    {chapters[k].paragraphs[j] : j \in 1..Len(chapters[k].paragraphs)}

\* C7: for adjacent chapters k, k + 1, end_paragraph of k is at most
\* start_paragraph of k + 1 minus one, and no paragraph index belongs to the
\* paragraph ranges of two different chapters.
C7_NoOverlap ==
    /\ \A k \in 1..(Len(chapters) - 1) :
          chapters[k].end_paragraph <= chapters[k + 1].start_paragraph - 1
    /\ \A k, m \in 1..Len(chapters) :
          k /= m => ParagraphSet(k) \cap ParagraphSet(m) = {}

\* Boundaries were resolved and a chapter of more than one paragraph ends
\* right before the next chapter.
C7_Witness ==
    /\ pc = "analyzed"
    /\ \E k \in 1..(Len(chapters) - 1) :
          /\ chapters[k].end_paragraph = chapters[k + 1].start_paragraph - 1
          /\ chapters[k].end_paragraph > chapters[k].start_paragraph

\* C8: every paragraph index lying between the first chapter's start and
\* the last chapter's end belongs to exactly one chapter: nothing is left
\* ungrouped between two consecutive chapters.
C8_Coverage ==
    (Analyzed /\ chapters /= << >>) =>
        \A p \in chapters[1].start_paragraph..chapters[Len(chapters)].end_paragraph :
            Cardinality({k \in 1..Len(chapters) : p \in ParagraphSet(k)}) = 1

\* C9: with an empty heading list the planner returns an empty chapter
\* list, boundary resolution changes nothing, the document is reported as
\* skipped and no chapter is submitted for materialization.
C9_NoHeadingsNoSplit ==
    (pc /= "collect" /\ all_headings = << >>) =>
        /\ chapters = << >>
        /\ submitted = {}
        /\ pc /= "submitted"
        /\ (pc = "done" => result = "skipped")

\* A document with paragraphs, none of which is a heading, one of them
\* carrying a heading style on a blank text, was processed to its end.
C9_Witness ==
    /\ pc = "done"
    /\ all_headings = << >>
    /\ \E k \in 1..Len(paragraphs) : paragraphs[k].outline_level > 0

\* The titles of the CurrentPath entries with level <= L, in ascending
\* level order.
PathTitles(L) ==
    LET lv == {l \in DOMAIN current_levels : l <= L}
    IN  [n \in 1..Cardinality(lv) |-> current_levels[NthOf(lv, n)].title]

\* The components joined with " - ", built from the last component back.
RECURSIVE JoinDash(_)
JoinDash(parts) ==
    IF Len(parts) = 1 THEN parts[1]
    ELSE JoinDash(SubSeq(parts, 1, Len(parts) - 1)) \o " - " \o parts[Len(parts)]

\* The last chapter of the list was emitted at the heading just visited.
EmittedAtLastVisited ==
    /\ i >= 1
    /\ Len(chapters) >= 1
    /\ chapters[Len(chapters)].start_paragraph = all_headings[i].paragraph_index

\* C10: the title of the chapter emitted at heading h of level L is the
\* titles of the CurrentPath entries with level <= L in ascending level
\* order joined with " - "; its last component is h's own title; the
\* fallback title is produced only when CurrentPath has no entry at a level
\* <= L.
C10_ChapterTitle ==
    EmittedAtLastVisited =>
        LET c == chapters[Len(chapters)]
            parts == PathTitles(c.level)
        IN  /\ Len(parts) >= 1
            /\ c.title = JoinDash(parts)
            /\ parts[Len(parts)] = all_headings[i].title
            /\ (c.title = FallbackTitle(c.level) =>
                   {l \in DOMAIN current_levels : l <= c.level} = {})

\* A chapter was just emitted at a heading that has an ancestor two levels
\* above it, so that its title has two components.
C10_Witness ==
    /\ pc = "scan"
    /\ EmittedAtLastVisited
    /\ DOMAIN current_levels = {1, 3}
    /\ Len(PathTitles(3)) = 2

\* The heading at which chapter c starts.
HeadingOfChapter(c) ==
    CHOOSE k \in 1..Len(all_headings) :
        all_headings[k].paragraph_index = chapters[c].start_paragraph

\* C11: two headings at the same emitted level whose parent headings are
\* different headings produce two separate chapters whose titles differ.
C11_DistinctTitles ==
    Analyzed =>
        \A c1, c2 \in 1..Len(chapters) :
            (/\ c1 /= c2
             /\ chapters[c1].level = chapters[c2].level
             /\ Parent(HeadingOfChapter(c1)) /= 0
             /\ Parent(HeadingOfChapter(c2)) /= 0
             /\ Parent(HeadingOfChapter(c1)) /= Parent(HeadingOfChapter(c2)))
                => /\ chapters[c1].start_paragraph /= chapters[c2].start_paragraph
                   /\ chapters[c1].title /= chapters[c2].title

\* The headings that are not immediately followed by a deeper heading.
LeafHeadings ==
    {k \in 1..Len(all_headings) :
        k = Len(all_headings) \/ all_headings[k + 1].level <= all_headings[k].level}

\* C12: when targetLevel >= every heading level of a non-empty heading list,
\* the chapters are emitted exactly at the headings that are not immediately
\* followed by a deeper heading, and at least one chapter is produced.
C12_DeepestOfEachBranch ==
    (/\ Analyzed
     /\ all_headings /= << >>
     /\ \A k \in 1..Len(all_headings) : all_headings[k].level <= min_level) =>
        /\ Len(chapters) = Cardinality(LeafHeadings)
        /\ {chapters[c].start_paragraph : c \in 1..Len(chapters)} =
               {all_headings[k].paragraph_index : k \in LeafHeadings}
        /\ \A c \in 1..Len(chapters) :
               chapters[c].level = all_headings[HeadingOfChapter(c)].level
        /\ Len(chapters) >= 1

\* The analysis of a document whose levels jump from 1 to 3, none deeper than
\* the target level, some heading being followed by a deeper one.
C12_Witness ==
    /\ pc = "analyzed"
    /\ Len(all_headings) >= 2
    /\ \A k \in 1..Len(all_headings) : all_headings[k].level <= min_level
    /\ Cardinality(LeafHeadings) < Len(all_headings)
    /\ \E k \in 1..(Len(all_headings) - 1) :
          all_headings[k + 1].level = all_headings[k].level + 2

\* The element positions of the tables of the document.
TableElements ==
    {t \in 1..Len(document_elements) : document_elements[t].type = "table"}

\* The table indices attributed to chapter c.
TablesOf(c) == {tables_to_copy[c][k] : k \in 1..Len(tables_to_copy[c])}

\* The paragraph element nearest before element t exists and its index is
\* in the paragraph range of chapter c.
PrecededInRange(t, c) ==
    \E j \in 1..(t - 1) :
        /\ document_elements[j].type = "paragraph"
        /\ \A m \in (j + 1)..(t - 1) : document_elements[m].type /= "paragraph"
        /\ InRange(document_elements[j].index, paragraph_ranges[c])

\* C13: a table is attributed to a chapter iff the nearest paragraph element
\* before it in the interleaved order exists and its index is inside the
\* chapter's range, whatever the following paragraph is; a table with no
\* preceding paragraph is attributed to no chapter.
C13_TableAssociation ==
    \A c \in DOMAIN tables_to_copy :
        \A t \in TableElements :
            document_elements[t].index \in TablesOf(c) <=> PrecededInRange(t, c)

\* The element order [p0, p1, t0, p2] of the spec's table example.
ExampleElements ==
    ElementsOf(<< "paragraph", "paragraph", "table", "paragraph" >>)

\* C14: every table is attributed to at most one chapter; in particular for
\* the element order [p0, p1, t0, p2] with the ranges [0,1] and [2,2], t0 is
\* attributed to the first chapter and not to the second.
C14_TableInOneChapter ==
    /\ \A c1, c2 \in DOMAIN tables_to_copy :
          c1 /= c2 => TablesOf(c1) \cap TablesOf(c2) = {}
    /\ (/\ document_elements = ExampleElements
        /\ paragraph_ranges = << << 0, 1 >>, << 2 >> >>
        /\ DOMAIN tables_to_copy = {1, 2})
           => (0 \in TablesOf(1) /\ 0 \notin TablesOf(2))

\* The level the claim gives to a styled paragraph: by the style name when
\* it follows a heading naming convention ("Heading <n>", or the CJK word
\* for title and a number), else by the outline-level attribute, else 0.
ClaimedLevel(paragraph) ==
    IF paragraph.style.family \in {"Heading", "Biaoti"}
      THEN IF paragraph.style.number = NoNumber THEN 1 ELSE paragraph.style.number
    ELSE IF paragraph.outline_lvl >= 0 THEN paragraph.outline_lvl + 1
    ELSE 0

\* The level of the amended claim: as ClaimedLevel, but a paragraph whose
\* style name starts with the CJK word for style gets the number of the
\* style name when there is one and its text looks like a heading, else 0,
\* whatever its outline-level attribute is.
AmendedLevel(paragraph) ==
    IF paragraph.style.family = "Yangshi"
      THEN IF paragraph.style.number /= NoNumber
                /\ Strip(paragraph.text) \notin {"", LongSentence}
             THEN paragraph.style.number
             ELSE 0
      ELSE ClaimedLevel(paragraph)

\* all_headings is, in document order, exactly the paragraphs whose level
\* (by Level) is > 0 and whose stripped text is not empty, each with that
\* level; levels are >= 1 and positions strictly increasing.
HeadingsAre(Level(_)) ==
    LET emitted == {k \in 1..Len(raw_paragraphs) :
                       Level(raw_paragraphs[k]) > 0 /\ Strip(raw_paragraphs[k].text) /= ""}
    IN  /\ Len(all_headings) = Cardinality(emitted)
        /\ {all_headings[j].paragraph_index : j \in 1..Len(all_headings)} =
               {k - 1 : k \in emitted}
        /\ \A j \in 1..Len(all_headings) :
              /\ all_headings[j].level = Level(raw_paragraphs[all_headings[j].paragraph_index + 1])
              /\ all_headings[j].title = Strip(raw_paragraphs[all_headings[j].paragraph_index + 1].text)
              /\ all_headings[j].level >= 1
        /\ \A j \in 1..(Len(all_headings) - 1) :
              all_headings[j].paragraph_index < all_headings[j + 1].paragraph_index

C17_SafeFilename ==
    (sanitize_pc = "done") =>
        /\ \A k \in 1..Len(filename) : filename[k] \notin {"/", "NUL", "TAB"}
        /\ Len(filename) <= FilenameCap
        /\ Len(filename) >= 1

\* A title of whitespace, control and path-illegal characters longer than
\* the cap allows was sanitized.
C17_Witness ==
    /\ sanitize_pc = "done"
    /\ Len(title) > FilenameCap
    /\ \E k \in 1..Len(title) : title[k] = "/"
    /\ \E k \in 1..Len(title) : title[k] = "NUL"
    /\ Len(filename) = FilenameCap

\* The futures of all documents that are inside the "with self.lock" block.
Writing ==
    {w \in doc_files \X (1..MaxChapters) :
        /\ w[2] <= Len(futures[w[1]])
        /\ futures[w[1]][w[2]].state = "writing"}

\* C18: at most one chapter worker, over all documents, is inside the
\* "create parent directory then write file" step.
C18_OneWriter == Cardinality(Writing) <= 1

\* A worker of one document is writing while a worker of the other document
\* has finished copying and waits for the lock.
C18_Witness ==
    \E d \in doc_files, e \in doc_files :
        /\ d /= e
        /\ Len(futures[d]) >= 1 /\ Len(futures[e]) >= 1
        /\ futures[d][1].state = "writing"
        /\ futures[e][1].state = "copying"
        /\ lock = << d, 1 >>

CountState(d, st) ==
    Cardinality({j \in 1..Len(futures[d]) : futures[d][j].state = st})

\* C19: every chapter of a document being processed has exactly one future;
\* when the document finishes every future has run to its end, failed or
\* not, and created files + failed count = number of chapters.
C19_AllChaptersAccounted ==
    \A d \in doc_files :
        /\ doc_status[d] \in {"running", "completed"} =>
              \A c \in 1..chapter_counts[d] :
                  Cardinality({j \in 1..Len(futures[d]) : futures[d][j].chapter = c}) = 1
        /\ doc_status[d] = "completed" =>
              /\ \A j \in 1..Len(futures[d]) : futures[d][j].state \in Completed
              /\ Len(created_files[d]) = CountState(d, "returned")
              /\ failed_count[d] = CountState(d, "raised")
              /\ Len(created_files[d]) + failed_count[d] = chapter_counts[d]

\* A document of two chapters finished with one file created and one
\* chapter failed.
C19_Witness ==
    \E d \in doc_files :
        /\ doc_status[d] = "completed"
        /\ chapter_counts[d] = 2
        /\ Len(created_files[d]) = 1
        /\ failed_count[d] = 1

\* C20: a chapter that never completes does not keep its document from
\* finishing: whenever nothing more can happen, every document has finished.
C20_HungChapterTimesOut ==
    (\E d \in doc_files : CountState(d, "hung") > 0) =>
        \/ ENABLED NextProcessor
        \/ \A d \in doc_files : doc_status[d] \in {"skipped", "completed", "failed"}

\* Every call that has returned holds the chapter list its document gets
\* when planned alone.
ResultsAsAlone ==
    \A t \in DOMAIN calls :
        calls[t].pc = "analyzed" =>
            calls[t].chapters = analyze_document_structure(calls[t].paragraphs, min_level)

\* A step of one call leaves the local variables and the current_levels of
\* every other call as they were.
NoInterference ==
    \A t \in DOMAIN calls :
        calls'[t] /= calls[t] =>
            \A u \in DOMAIN calls \ {t} :
                calls'[u] = calls[u] /\ frames'[u] = frames[u]

\* C16: two documents planned concurrently through one splitter get, under
\* every interleaving, the chapter lists they get when planned one after
\* the other, and no step of one call touches the state of the other.
C16_ConcurrentPlanning == []ResultsAsAlone /\ [][NoInterference]_vars

\* Both calls have returned, each with chapters of its own document.
C16_Witness ==
    /\ DOMAIN calls = Threads
    /\ \A t \in Threads : calls[t].pc = "analyzed" /\ Len(calls[t].chapters) >= 2
    /\ calls[1].chapters /= calls[2].chapters

C22_NoTemporaryFiles == \A f \in submitted_docs : ~f.tilde

\* The characters of the title of chapter c: the titles of its heading path
\* (each heading title of the model is one ordinary character) joined by
\* " - ".
RECURSIVE JoinCharacters(_)
JoinCharacters(parts) ==
    IF Len(parts) = 0 THEN << >>
    ELSE IF Len(parts) = 1 THEN << parts[1] >>
    ELSE << parts[1], " ", "-", " " >> \o JoinCharacters(Tail(parts))

TitleCharacters(c) ==
    LET path == RecordedPath(HeadingOfChapter(c), chapters[c].level)
        lv == DOMAIN path
    IN  JoinCharacters([n \in 1..Cardinality(lv) |-> path[NthOf(lv, n)]])

\* os.path.join(output_path, f"{safe_filename}.docx") for chapter c
full_output_path(c) ==
    << "doc_output_dir", "/" >> \o _sanitize_filename(TitleCharacters(c)) \o << ".docx" >>

\* C23: no two chapters of one planner output are written to the same
\* output path.
C23_OwnOutputFile ==
    (pc = "submitted") =>
        \A c1, c2 \in submitted :
            c1 /= c2 => full_output_path(c1) /= full_output_path(c2)

\* The headings that start a chapter of the final list.
ChapterStarts == {chapters[k].start_paragraph : k \in 1..Len(chapters)}

\* The orphan headings after chapter k: headings of level <= the level of
\* chapter k, strictly between the starts of chapters k and k + 1, that start
\* no chapter.
OrphansAfter(k) ==
    {h \in 1..Len(all_headings) :
        /\ chapters[k].start_paragraph < all_headings[h].paragraph_index
        /\ all_headings[h].paragraph_index < chapters[k + 1].start_paragraph
        /\ all_headings[h].level <= chapters[k].level
        /\ all_headings[h].paragraph_index \notin ChapterStarts}

\* C24: the paragraph of an orphan heading and the content after it, up to
\* the start of chapter k + 1, belong to the paragraph range of chapter k.
C24_OrphanMerged ==
    Analyzed =>
        \A k \in 1..(Len(chapters) - 1) :
            \A h \in OrphansAfter(k) :
                \A p \in all_headings[h].paragraph_index..(chapters[k + 1].start_paragraph - 1) :
                    p \in ParagraphSet(k)

\* The headings other than its own start that the paragraph range of
\* chapter k contains and whose level is <= the level of the chapter.
ClosingHeadingsInside(k) ==
    {h \in 1..Len(all_headings) :
        /\ all_headings[h].paragraph_index \in ParagraphSet(k)
        /\ all_headings[h].paragraph_index /= chapters[k].start_paragraph
        /\ all_headings[h].level <= chapters[k].level}

RunAfter(k) == (k + 1)..(BranchStop(k) - 1)

\* C30: for every visited heading k of level L, the ancestor-path check
\* accepts every heading of the run after k, maxDepth is the maximum of L and
\* the levels of the run, and when L < targetLevel heading k starts a chapter
\* exactly when the next heading, if any, has level <= L.
C30_PathCheckNeverRejects ==
    \A k \in 1..i :
        LET L == all_headings[k].level
        IN  /\ \A j \in RunAfter(k) :
                  _belongs_to_current_branch(all_headings, j,
                                             BuildPath(all_headings, k, L), L)
            /\ _get_branch_max_level(all_headings, k, L) =
                  MaxOf({L} \cup {all_headings[j].level : j \in RunAfter(k)})
            /\ (k = i) => (branch_max_level =
                              MaxOf({L} \cup {all_headings[j].level : j \in RunAfter(k)}))
            /\ (L < min_level) =>
                  (_should_create_chapter_at_position(all_headings, k, L, min_level)
                      <=> (k = Len(all_headings) \/ all_headings[k + 1].level <= L))

\* The visited heading is below the target level, follows a heading of
\* another branch, and its scan examines at least one deeper heading.
C30_Witness ==
    /\ i >= 2
    /\ all_headings[i].level < min_level
    /\ all_headings[i - 1].level > all_headings[i].level
    /\ RunAfter(i) /= {}

\* Heading h is covered by a split point: a chapter starts at h or at a
\* heading of the run after h.
Covered(h) ==
    \E k \in 1..Len(chapters) :
        \E j \in {h} \cup RunAfter(h) :
            chapters[k].start_paragraph = all_headings[j].paragraph_index

\* C26: every heading whose level is <= targetLevel is covered by a split
\* point; in particular a heading list holding such a heading never yields
\* an empty chapter list.
C26_JumpingLevelsCovered ==
    Analyzed =>
        /\ \A h \in 1..Len(all_headings) :
              all_headings[h].level <= min_level => Covered(h)
        /\ (\E h \in 1..Len(all_headings) : all_headings[h].level <= min_level)
              => chapters /= << >>

\* C27: every chapter has a level in 1..targetLevel and starts at an
\* extracted heading of that level; the chapters are in strictly increasing
\* start order; a heading deeper than targetLevel starts no chapter.
C27_ChapterLevels ==
    /\ \A k \in 1..Len(chapters) :
          /\ chapters[k].level >= 1
          /\ chapters[k].level <= min_level
          /\ \E h \in 1..Len(all_headings) :
                /\ all_headings[h].paragraph_index = chapters[k].start_paragraph
                /\ all_headings[h].level = chapters[k].level
    /\ \A k \in 1..(Len(chapters) - 1) :
          chapters[k].start_paragraph < chapters[k + 1].start_paragraph
    /\ \A h \in 1..Len(all_headings) :
          all_headings[h].level > min_level =>
              \A k \in 1..Len(chapters) :
                  chapters[k].start_paragraph /= all_headings[h].paragraph_index

\* The plan is complete, has two chapters of different levels, and a heading
\* deeper than the target level was passed over.
C27_Witness ==
    /\ Analyzed
    /\ Len(chapters) >= 2
    /\ chapters[1].level /= chapters[2].level
    /\ \E h \in 1..Len(all_headings) : all_headings[h].level > min_level

\* A step of boundary resolution leaves the heading list, the number and
\* order of the chapters and each chapter's title, level and start alone.
BoundaryFrame ==
    (pc = "scan" /\ pc' = "analyzed") =>
        /\ all_headings' = all_headings
        /\ paragraphs' = paragraphs
        /\ Len(chapters') = Len(chapters)
        /\ \A k \in 1..Len(chapters) :
              /\ chapters'[k].title = chapters[k].title
              /\ chapters'[k].level = chapters[k].level
              /\ chapters'[k].start_paragraph = chapters[k].start_paragraph

\* A step of the scan, with its branch-depth analysis and split decision,
\* leaves the heading list and the chapters already emitted alone, and
\* changes CurrentPath only by the visited heading's own update: the entries
\* above its level stay, the entry at its level is the heading, no entry
\* below its level remains.
DecisionFrame ==
    (pc = "scan" /\ i' = i + 1) =>
        LET heading == all_headings[i + 1]
        IN  /\ all_headings' = all_headings
            /\ SubSeq(chapters', 1, Len(chapters)) = chapters
            /\ DOMAIN current_levels' =
                   {l \in DOMAIN current_levels : l < heading.level} \cup {heading.level}
            /\ \A l \in DOMAIN current_levels :
                   l < heading.level => current_levels'[l] = current_levels[l]
            /\ current_levels'[heading.level] =
                   [title |-> heading.title, paragraph_index |-> heading.paragraph_index]

\* C28: boundary resolution changes only end_paragraph and paragraphs of the
\* chapters; the branch-depth analysis and the split decision change neither
\* the heading list nor CurrentPath.
C28_FrameEffect == [][BoundaryFrame /\ DecisionFrame]_vars

\* Boundary resolution has run on two chapters and has moved an end.
C28_Witness ==
    /\ pc = "analyzed"
    /\ Len(chapters) >= 2
    /\ \E k \in 1..Len(chapters) : chapters[k].end_paragraph > chapters[k].start_paragraph
    /\ \E k \in 1..Len(chapters) : chapters[k].end_paragraph = chapters[k].start_paragraph

\* C29: the sanitized filename neither starts nor ends with a whitespace
\* character, and sanitizing it again returns it unchanged.
C29_NoOuterWhitespace ==
    (sanitize_pc = "done") =>
        /\ filename[1] \notin Whitespace
        /\ filename[Len(filename)] \notin Whitespace
        /\ _sanitize_filename(filename) = filename

====
